---- MODULE Spec2Model ----
(***************************************************************************)
(* Account lifecycle of the Acala accounts module                          *)
(* (src/modules/accounts/src/lib.rs): the StoredMap fork over              *)
(* frame_system's Account storage (insert, remove, mutate, mutate_exists,  *)
(* try_mutate_exists), open_account, the close_account dispatchable, and   *)
(* the ChargeTransactionPayment signed extension (withdraw_fee,            *)
(* get_priority, validate, pre_dispatch, post_dispatch).                   *)
(*                                                                         *)
(* The currency ledger (orml Currency), the atomic scope                   *)
(* (with_transaction_result) and frame_system's own bookkeeping of nonce   *)
(* and refcount are collaborators outside the module; they are modelled    *)
(* by the Ledger*, with_transaction_result and System* definitions from    *)
(* the interface the module uses.                                          *)
(***************************************************************************)
EXTENDS Integers, Sequences, FiniteSets, TLC

VARIABLES
    accounts,   \* system::Account storage: id -> Option<AccountInfo>
    free,       \* ledger: id -> currency -> free balance
    reserved,   \* ledger: id -> currency -> reserved balance
    last,       \* the call that produced this state and what it invoked
    tx          \* the transaction in the fee pipeline and its fee charge record

vars == <<accounts, free, reserved, last, tx>>

----------------------------------------------------------------------------
(* Bounds of the model *)

MaxFree == 3      \* largest free fee-currency balance an identity starts with
MaxNonce == 1     \* cap of the nonce counter
MaxRef == 1       \* cap of the reference counter
MaxSupply == 3    \* cap of the fee-currency units the ledger has issued
MaxOtherSupply == 1  \* cap of the units issued of each other currency
U64Bits == 10     \* width the 64-bit integers are scaled to
MaxTip == 1       \* largest tip of a transaction
MaxLen == 1       \* largest encoded length of a transaction in the fee pipeline
MaxWeight == 1    \* largest weight of a transaction in the fee pipeline
MaxFrozen == 1    \* largest amount the payer's locks freeze

----------------------------------------------------------------------------
(* Configuration of the runtime (Trait) *)

Treasury == "treasury"
Ids == {"alice", "bob", Treasury}

ACA == "ACA"
AUSD == "AUSD"
DOT == "DOT"

NativeCurrencyId == ACA
StableCurrencyId == AUSD
AllNonNativeCurrencyIds == <<AUSD, DOT>>
Currencies == {ACA, AUSD, DOT}

NewAccountDeposit == 2

treasury_account_id == Treasury

----------------------------------------------------------------------------
(* Option<T>: None is the empty sequence, Some(x) the one-element sequence *)

None == <<>>
Some(x) == <<x>>
IsSome(o) == o # <<>>
Unwrap(o) == o[1]
unwrap_or(o, d) == IF IsSome(o) THEN o[1] ELSE d

(* T::AccountData is opaque to the module; DataDefault is its Default. *)
DataDefault == "d0"
DataValues == {"d0", "d1"}

AccountInfo(n, r, d) == [nonce |-> n, refcount |-> r, data |-> d]
AccountInfoDefault == AccountInfo(0, 0, DataDefault)
AccountInfos == [nonce : 0..MaxNonce, refcount : 0..MaxRef, data : DataValues]

(* system::Account is a ValueQuery map: get returns the default when the   *)
(* key is absent.                                                          *)
AccountGet(accts, k) == unwrap_or(accts[k], AccountInfoDefault)
contains_key(accts, k) == IsSome(accts[k])

get(accts, k) == AccountGet(accts, k).data
is_explicit(accts, k) == contains_key(accts, k)

----------------------------------------------------------------------------
(* The currency ledger. A balance state is [free, reserved]; every         *)
(* operation returns [ok, bal].                                            *)

Bal(f, r) == [free |-> f, reserved |-> r]

SetBal(m, who, c, v) == [m EXCEPT ![who][c] = v]

(* reserve: moves amount from free to reserved, fails on insufficient free *)
LedgerReserve(bal, c, who, amount) ==
    IF bal.free[who][c] < amount
    THEN [ok |-> FALSE, bal |-> bal]
    ELSE [ok |-> TRUE,
          bal |-> Bal(SetBal(bal.free, who, c, bal.free[who][c] - amount),
                      SetBal(bal.reserved, who, c, bal.reserved[who][c] + amount))]

Min(a, b) == IF a < b THEN a ELSE b

(* unreserve: moves up to amount from reserved to free, never fails *)
LedgerUnreserve(bal, c, who, amount) ==
    LET actual == Min(amount, bal.reserved[who][c])
    IN  Bal(SetBal(bal.free, who, c, bal.free[who][c] + actual),
            SetBal(bal.reserved, who, c, bal.reserved[who][c] - actual))

(* transfer: a zero amount or a transfer to oneself succeeds and moves     *)
(* nothing; otherwise it fails on insufficient free balance or when the    *)
(* ledger refuses the currency (refuse: the currencies the ledger rejects  *)
(* a deposit of during this call, e.g. below the existential minimum).     *)
LedgerTransfer(bal, c, from, to, amount, refuse) ==
    IF amount = 0 \/ from = to
    THEN [ok |-> TRUE, bal |-> bal]
    ELSE IF bal.free[from][c] < amount \/ c \in refuse
    THEN [ok |-> FALSE, bal |-> bal]
    ELSE [ok |-> TRUE,
          bal |-> Bal([bal.free EXCEPT ![from][c] = @ - amount,
                                       ![to][c] = @ + amount],
                      bal.reserved)]

----------------------------------------------------------------------------
(* Module::open_account. Returns the storage, the balances and the hooks   *)
(* and ledger moves it performed, in order.                                *)

Out(accts, bal, events) == [accounts |-> accts, bal |-> bal, events |-> events]

(* One entry of the record of a call: a hook invocation or a ledger move,  *)
(* with the identity or currency it was for.                               *)
Ev(kind, x) == <<kind, x>>

(* open_account that fires "created" without keeping the reservation *)
open_account_no_reserve(accts, bal, k, refuse) ==
    LET r == LedgerReserve(bal, NativeCurrencyId, k, NewAccountDeposit)
    IN  IF r.ok
        THEN Out(accts, bal, <<Ev("open_account", k), Ev("created", k)>>)
        ELSE IF k # treasury_account_id
        THEN LET t == LedgerTransfer(bal, NativeCurrencyId, k, treasury_account_id,
                                     bal.free[k][NativeCurrencyId], refuse)
             IN  IF t.ok
                 THEN Out([accts EXCEPT ![k] = None], t.bal,
                          <<Ev("open_account", k), Ev("erased", k)>>)
                 ELSE Out(accts, bal, <<Ev("open_account", k), Ev("transfer_failed", k)>>)
        ELSE Out(accts, bal, <<Ev("open_account", k)>>)

(* open_account that sends the dust to the Treasury and keeps the record *)
open_account_keeps_record(accts, bal, k, refuse) ==
    LET r == LedgerReserve(bal, NativeCurrencyId, k, NewAccountDeposit)
    IN  IF r.ok
        THEN Out(accts, r.bal, <<Ev("open_account", k), Ev("created", k)>>)
        ELSE IF k # treasury_account_id
        THEN LET t == LedgerTransfer(bal, NativeCurrencyId, k, treasury_account_id,
                                     bal.free[k][NativeCurrencyId], refuse)
             IN  IF t.ok
                 THEN Out(accts, t.bal, <<Ev("open_account", k)>>)
                 ELSE Out(accts, bal, <<Ev("open_account", k), Ev("transfer_failed", k)>>)
        ELSE Out(accts, bal, <<Ev("open_account", k)>>)

(* open_account without the check for the treasury account *)
open_account_reaps_treasury(accts, bal, k, refuse) ==
    LET r == LedgerReserve(bal, NativeCurrencyId, k, NewAccountDeposit)
        t == LedgerTransfer(bal, NativeCurrencyId, k, treasury_account_id,
                            bal.free[k][NativeCurrencyId], refuse)
    IN  IF r.ok
        THEN Out(accts, r.bal, <<Ev("open_account", k), Ev("created", k)>>)
        ELSE IF t.ok
        THEN Out([accts EXCEPT ![k] = None], t.bal,
                 <<Ev("open_account", k), Ev("erased", k)>>)
        ELSE Out(accts, bal, <<Ev("open_account", k), Ev("transfer_failed", k)>>)

(* open_account that takes the dust without handing it to the treasury *)
open_account_burns_dust(accts, bal, k, refuse) ==
    LET r == LedgerReserve(bal, NativeCurrencyId, k, NewAccountDeposit)
    IN  IF r.ok
        THEN Out(accts, r.bal, <<Ev("open_account", k), Ev("created", k)>>)
        ELSE IF k # treasury_account_id
        THEN Out([accts EXCEPT ![k] = None],
                 Bal(SetBal(bal.free, k, NativeCurrencyId, 0), bal.reserved),
                 <<Ev("open_account", k), Ev("erased", k)>>)
        ELSE Out(accts, bal, <<Ev("open_account", k)>>)

open_account(accts, bal, k, refuse) ==
    LET r == LedgerReserve(bal, NativeCurrencyId, k, NewAccountDeposit)
    IN  IF r.ok
        THEN Out(accts, r.bal, <<Ev("open_account", k), Ev("created", k)>>)
        ELSE IF k # treasury_account_id
        THEN LET t == LedgerTransfer(bal, NativeCurrencyId, k, treasury_account_id,
                                     bal.free[k][NativeCurrencyId], refuse)
             IN  IF t.ok
                 THEN Out([accts EXCEPT ![k] = None], t.bal,
                          <<Ev("open_account", k), Ev("erased", k)>>)
                 ELSE Out(accts, bal, <<Ev("open_account", k), Ev("transfer_failed", k)>>)
        ELSE Out(accts, bal, <<Ev("open_account", k)>>)

----------------------------------------------------------------------------
(* StoredMap for Module: every operation returns                           *)
(* [accounts, bal, events, result].                                        *)

Res(o, result) ==
    [accounts |-> o.accounts, bal |-> o.bal, events |-> o.events, result |-> result]

(* insert that opens the account on every call *)
insert_always_opens(accts, bal, k, data, refuse) ==
    LET written == [accts EXCEPT ![k] = Some([AccountGet(accts, k) EXCEPT !.data = data])]
    IN  Res(open_account(written, bal, k, refuse), "ok")

insert(accts, bal, k, data, refuse) ==
    LET existed == contains_key(accts, k)
        written == [accts EXCEPT ![k] = Some([AccountGet(accts, k) EXCEPT !.data = data])]
    IN  IF ~existed
        THEN Res(open_account(written, bal, k, refuse), "ok")
        ELSE Res(Out(written, bal, <<>>), "ok")

(* remove that deletes the record, as frame_system's own StoredMap does *)
remove_deletes(accts, bal, k) ==
    Res(Out([accts EXCEPT ![k] = None], bal, <<Ev("killed", k)>>), "ok")

remove(accts, bal, k) ==
    Res(Out(accts, bal, <<Ev("killed", k)>>), "ok")

(* f is given by the data it leaves behind *)
mutate(accts, bal, k, fdata) ==
    LET existed == contains_key(accts, k)
        written == [accts EXCEPT ![k] = Some([AccountGet(accts, k) EXCEPT !.data = fdata])]
    IN  IF ~existed
        THEN Res(Out(written, bal, <<Ev("created", k)>>), "ok")
        ELSE Res(Out(written, bal, <<>>), "ok")

split_inner(option, splitter) ==
    IF IsSome(option)
    THEN LET rs == splitter[Unwrap(option)] IN <<Some(rs[1]), Some(rs[2])>>
    ELSE <<None, None>>

(* the splitter try_mutate_exists passes: the prefix and the data *)
PrefixAndData ==
    [account \in AccountInfos |-> <<<<account.nonce, account.refcount>>, account.data>>]

(* try_mutate_exists whose take() of the stored value is kept when f fails *)
try_mutate_exists_takes(accts, bal, k, f, refuse) ==
    LET maybe_value == accts[k]
        existed == IsSome(maybe_value)
        split == split_inner(maybe_value, PrefixAndData)
        prefix == unwrap_or(split[1], <<0, 0>>)
        data == unwrap_or(f.view, DataDefault)
        written == [accts EXCEPT ![k] = Some(AccountInfo(prefix[1], prefix[2], data))]
    IN  IF ~f.ok
        THEN Res(Out([accts EXCEPT ![k] = None], bal, <<>>), "err")
        ELSE IF ~existed
        THEN Res(open_account(written, bal, k, refuse), "ok")
        ELSE Res(Out(written, bal, <<>>), "ok")

(* try_mutate_exists that stores nothing when f leaves the view empty *)
try_mutate_exists_drops_empty(accts, bal, k, f, refuse) ==
    LET maybe_value == accts[k]
        existed == IsSome(maybe_value)
        split == split_inner(maybe_value, PrefixAndData)
        prefix == unwrap_or(split[1], <<0, 0>>)
        new_value == IF IsSome(f.view)
                     THEN Some(AccountInfo(prefix[1], prefix[2], Unwrap(f.view)))
                     ELSE None
        written == [accts EXCEPT ![k] = new_value]
    IN  IF ~f.ok
        THEN Res(Out(accts, bal, <<>>), "err")
        ELSE IF ~existed /\ IsSome(new_value)
        THEN Res(open_account(written, bal, k, refuse), "ok")
        ELSE Res(Out(written, bal, <<>>), "ok")

(* f is given by what it does in this call: f.ok says whether it returns   *)
(* Ok, f.view is the Option<AccountData> it leaves in the view it was      *)
(* handed (maybe_data before f runs is split[2]).                          *)
try_mutate_exists(accts, bal, k, f, refuse) ==
    LET maybe_value == accts[k]
        existed == IsSome(maybe_value)
        split == split_inner(maybe_value, PrefixAndData)
        maybe_prefix == split[1]
        maybe_data == f.view
        prefix == unwrap_or(maybe_prefix, <<0, 0>>)
        data == unwrap_or(maybe_data, DataDefault)
        new_value == Some(AccountInfo(prefix[1], prefix[2], data))
        exists == IsSome(new_value)
        written == [accts EXCEPT ![k] = new_value]
    IN  IF ~f.ok
        THEN Res(Out(accts, bal, <<>>), "err")
        ELSE IF ~existed /\ exists
        THEN Res(open_account(written, bal, k, refuse), "ok")
        ELSE Res(Out(written, bal, <<>>), "ok")

(* mutate_exists: try_mutate_exists with an f that cannot fail *)
mutate_exists(accts, bal, k, fview, refuse) ==
    try_mutate_exists(accts, bal, k, [ok |-> TRUE, view |-> fview], refuse)

----------------------------------------------------------------------------
(* Module::close_account. A run is [ok, err, bal, events].                 *)

Run(ok, err, bal, events) == [ok |-> ok, err |-> err, bal |-> bal, events |-> events]

(* system::Module::allow_death *)
allow_death(accts, who) == AccountGet(accts, who).refcount = 0

(* the loop over the non-native currencies, from the i-th on *)
RECURSIVE close_others(_, _, _, _, _, _)
close_others(bal, events, who, recipient, refuse, i) ==
    IF i > Len(AllNonNativeCurrencyIds)
    THEN Run(TRUE, "ok", bal, events)
    ELSE LET currency_id == AllNonNativeCurrencyIds[i]
         IN  IF bal.reserved[who][currency_id] # 0
             THEN Run(FALSE, "StillHasActiveReserved", bal, events)
             ELSE LET t == LedgerTransfer(bal, currency_id, who, recipient,
                                          bal.free[who][currency_id], refuse)
                  IN  IF ~t.ok
                      THEN Run(FALSE, "TransferFailed", bal, events)
                      ELSE close_others(t.bal, Append(events, Ev("transfer", currency_id)),
                                        who, recipient, refuse, i + 1)

(* the effects with the kill hook invoked before the other currencies are *)
(* handled                                                                 *)
close_account_effects_kills_first(bal, who, recipient_arg, refuse) ==
    LET native_currency_id == NativeCurrencyId
        total_reserved_native == bal.reserved[who][native_currency_id]
        recipient == unwrap_or(recipient_arg, treasury_account_id)
        unres == LedgerUnreserve(bal, native_currency_id, who, total_reserved_native)
        t == LedgerTransfer(unres, native_currency_id, who, recipient,
                            unres.free[who][native_currency_id], refuse)
        ev1 == <<Ev("recipient", recipient), Ev("unreserve", native_currency_id)>>
    IN  IF ~t.ok
        THEN Run(FALSE, "TransferFailed", unres, ev1)
        ELSE close_others(t.bal,
                          ev1 \o <<Ev("transfer", native_currency_id), Ev("killed", who)>>,
                          who, recipient, refuse, 1)

(* what the closure does once both checks have passed *)
close_account_effects(bal, who, recipient_arg, refuse) ==
    LET native_currency_id == NativeCurrencyId
        total_reserved_native == bal.reserved[who][native_currency_id]
        treasury_account == treasury_account_id
        recipient == unwrap_or(recipient_arg, treasury_account)
        unres == LedgerUnreserve(bal, native_currency_id, who, total_reserved_native)
        t == LedgerTransfer(unres, native_currency_id, who, recipient,
                            unres.free[who][native_currency_id], refuse)
        ev1 == <<Ev("recipient", recipient), Ev("unreserve", native_currency_id)>>
    IN  IF ~t.ok
        THEN Run(FALSE, "TransferFailed", unres, ev1)
        ELSE LET rest == close_others(t.bal, Append(ev1, Ev("transfer", native_currency_id)),
                                      who, recipient, refuse, 1)
             IN  IF rest.ok
                 THEN Run(TRUE, "ok", rest.bal, Append(rest.events, Ev("killed", who)))
                 ELSE rest

(* the closure without the allow_death check *)
close_account_body_ignores_refcount(accts, bal, who, recipient_arg, refuse) ==
    IF ~(NewAccountDeposit >= bal.reserved[who][NativeCurrencyId])
    THEN Run(FALSE, "StillHasActiveReserved", bal, <<>>)
    ELSE close_account_effects(bal, who, recipient_arg, refuse)

(* the closure with the deposit compared strictly *)
close_account_body_strict(accts, bal, who, recipient_arg, refuse) ==
    IF ~allow_death(accts, who)
    THEN Run(FALSE, "NonZeroRefCount", bal, <<>>)
    ELSE IF ~(NewAccountDeposit > bal.reserved[who][NativeCurrencyId])
    THEN Run(FALSE, "StillHasActiveReserved", bal, <<>>)
    ELSE close_account_effects(bal, who, recipient_arg, refuse)

(* the closure handed to with_transaction_result *)
close_account_body(accts, bal, who, recipient_arg, refuse) ==
    IF ~allow_death(accts, who)
    THEN Run(FALSE, "NonZeroRefCount", bal, <<>>)
    ELSE IF ~(NewAccountDeposit >= bal.reserved[who][NativeCurrencyId])
    THEN Run(FALSE, "StillHasActiveReserved", bal, <<>>)
    ELSE close_account_effects(bal, who, recipient_arg, refuse)

(* orml_utilities::with_transaction_result: the storage written by a run   *)
(* that fails is rolled back to what it was when the scope was entered.    *)
with_transaction_result(bal, run) ==
    IF run.ok THEN run ELSE [run EXCEPT !.bal = bal]

(* close_account run outside any atomic scope *)
close_account_unscoped(accts, bal, who, recipient_arg, refuse) ==
    close_account_body(accts, bal, who, recipient_arg, refuse)

close_account(accts, bal, who, recipient_arg, refuse) ==
    with_transaction_result(bal, close_account_body(accts, bal, who, recipient_arg, refuse))

----------------------------------------------------------------------------
(* ChargeTransactionPayment: the collaborators. The fee currency is kept   *)
(* by pallet_balances (withdraw, deposit_into_existing, locks), the other  *)
(* currencies by the multi-currency ledger; the DEX fills a swap or not.   *)

ExistentialDeposit == 1

(* pallet_balances::ensure_can_withdraw: the new free balance must stay    *)
(* above what the payer's locks freeze                                     *)
ensure_can_withdraw(frozen, new_balance) == new_balance >= frozen

(* Currency::withdraw(who, value, reasons, KeepAlive): returns the         *)
(* negative imbalance of what it took                                      *)
LedgerWithdraw(bal, who, value, frozen) ==
    LET account_free == bal.free[who][NativeCurrencyId]
        account_reserved == bal.reserved[who][NativeCurrencyId]
        new_free == account_free - value
        would_be_dead == new_free + account_reserved < ExistentialDeposit
        would_kill == would_be_dead /\ account_free + account_reserved >= ExistentialDeposit
    IN  IF value = 0
        THEN [ok |-> TRUE, bal |-> bal, imbalance |-> 0]
        ELSE IF account_free < value \/ would_kill \/ ~ensure_can_withdraw(frozen, new_free)
        THEN [ok |-> FALSE, bal |-> bal, imbalance |-> 0]
        ELSE [ok |-> TRUE,
              bal |-> Bal(SetBal(bal.free, who, NativeCurrencyId, new_free), bal.reserved),
              imbalance |-> value]

(* Currency::deposit_into_existing: fails when the account holds nothing   *)
(* any more; returns the positive imbalance of what it gave                *)
LedgerDepositIntoExisting(bal, who, value) ==
    IF value = 0
    THEN [ok |-> TRUE, bal |-> bal, imbalance |-> 0]
    ELSE IF bal.free[who][NativeCurrencyId] + bal.reserved[who][NativeCurrencyId] = 0
    THEN [ok |-> FALSE, bal |-> bal, imbalance |-> 0]
    ELSE [ok |-> TRUE,
          bal |-> Bal(SetBal(bal.free, who, NativeCurrencyId,
                             bal.free[who][NativeCurrencyId] + value), bal.reserved),
          imbalance |-> value]

(* NegativeImbalance::offset(PositiveImbalance) *)
offset(payed, refund_imbalance) ==
    IF payed >= refund_imbalance
    THEN [ok |-> TRUE, imbalance |-> payed - refund_imbalance]
    ELSE [ok |-> FALSE, imbalance |-> refund_imbalance - payed]

(* Imbalance::split(amount): the first part is at most amount, the second  *)
(* is the remainder                                                        *)
split(imbalance, amount) ==
    <<Min(imbalance, amount), imbalance - Min(imbalance, amount)>>

(* DEX::swap_with_exact_target: dex[c] is what the exchange asks of        *)
(* currency c for the target amount (0: it cannot fill the swap); the swap *)
(* fails when that exceeds max_supply_amount                               *)
swap_with_exact_target(bal, who, path, target_amount, max_supply_amount, dex) ==
    LET supply_currency == path[1]
        supply_amount == dex[supply_currency]
    IN  IF supply_amount = 0 \/ supply_amount > max_supply_amount
        THEN [ok |-> FALSE, bal |-> bal]
        ELSE [ok |-> TRUE,
              bal |-> Bal([bal.free EXCEPT
                              ![who][supply_currency] = @ - supply_amount,
                              ![who][path[Len(path)]] = @ + target_amount],
                          bal.reserved)]

(* pallet_transaction_payment::compute_fee and compute_actual_fee with a   *)
(* unit fee per byte and per unit of weight and no base fee                *)
compute_fee(len, weight, tip) == len + weight + tip
compute_actual_fee(len, actual_weight, tip) == len + actual_weight + tip

----------------------------------------------------------------------------
(* ChargeTransactionPayment::withdraw_fee *)

Swapped(bal, swaps) == [bal |-> bal, swaps |-> swaps]

Attempt(path, target, max_supply, ok) ==
    [path |-> path, target |-> target, max_supply |-> max_supply, ok |-> ok]

trading_path(currency_id) ==
    IF currency_id = StableCurrencyId
    THEN <<StableCurrencyId, NativeCurrencyId>>
    ELSE <<currency_id, StableCurrencyId, NativeCurrencyId>>

(* the iteration that goes on after a swap succeeded *)
RECURSIVE swap_others_no_break(_, _, _, _, _, _)
swap_others_no_break(bal, swaps, who, balance_fee, dex, i) ==
    IF i > Len(AllNonNativeCurrencyIds)
    THEN Swapped(bal, swaps)
    ELSE LET currency_id == AllNonNativeCurrencyIds[i]
             max_supply == bal.free[who][currency_id]
             s == swap_with_exact_target(bal, who, trading_path(currency_id),
                                         balance_fee, max_supply, dex)
         IN  swap_others_no_break(s.bal,
                 Append(swaps, Attempt(trading_path(currency_id), balance_fee, max_supply, s.ok)),
                 who, balance_fee, dex, i + 1)

(* the iteration over other_currency_ids, from the i-th on *)
RECURSIVE swap_others(_, _, _, _, _, _)
swap_others(bal, swaps, who, balance_fee, dex, i) ==
    IF i > Len(AllNonNativeCurrencyIds)
    THEN Swapped(bal, swaps)
    ELSE LET currency_id == AllNonNativeCurrencyIds[i]
             max_supply == bal.free[who][currency_id]
             s == swap_with_exact_target(bal, who, trading_path(currency_id),
                                         balance_fee, max_supply, dex)
             tried == Append(swaps, Attempt(trading_path(currency_id), balance_fee, max_supply, s.ok))
         IN  IF s.ok
             THEN Swapped(s.bal, tried)
             ELSE swap_others(s.bal, tried, who, balance_fee, dex, i + 1)

Charge(ok, fee, imbalance, bal, swaps) ==
    [ok |-> ok, fee |-> fee, imbalance |-> imbalance, bal |-> bal, swaps |-> swaps]

(* withdraw_fee that gives up when it tried to swap and no swap succeeded *)
withdraw_fee_needs_swap(bal, who, tip, len, weight, frozen, dex) ==
    LET fee == compute_fee(len, weight, tip)
        native_is_enough ==
            /\ bal.free[who][NativeCurrencyId] >= fee
            /\ ensure_can_withdraw(frozen, bal.free[who][NativeCurrencyId] - fee)
        swapped == IF ~native_is_enough
                   THEN swap_others(bal, <<>>, who, fee, dex, 1)
                   ELSE Swapped(bal, <<>>)
        w == LedgerWithdraw(swapped.bal, who, fee, frozen)
    IN  IF w.ok /\ (swapped.swaps = <<>> \/ swapped.swaps[Len(swapped.swaps)].ok)
        THEN Charge(TRUE, fee, Some(w.imbalance), w.bal, swapped.swaps)
        ELSE Charge(FALSE, 0, None, swapped.bal, swapped.swaps)

withdraw_fee(bal, who, tip, len, weight, frozen, dex) ==
    LET fee == compute_fee(len, weight, tip)
        native_is_enough ==
            /\ bal.free[who][NativeCurrencyId] >= fee
            /\ ensure_can_withdraw(frozen, bal.free[who][NativeCurrencyId] - fee)
        swapped == IF ~native_is_enough
                   THEN swap_others(bal, <<>>, who, fee, dex, 1)
                   ELSE Swapped(bal, <<>>)
        w == LedgerWithdraw(swapped.bal, who, fee, frozen)
    IN  IF w.ok
        THEN Charge(TRUE, fee, Some(w.imbalance), w.bal, swapped.swaps)
        ELSE Charge(FALSE, 0, None, swapped.bal, swapped.swaps)

----------------------------------------------------------------------------
(* ChargeTransactionPayment::get_priority. Weight and TransactionPriority  *)
(* are u64, Balance is u128; the widths are scaled to U64Bits.             *)

U64Max == 2^U64Bits - 1
BalanceMax == 2^(2 * U64Bits) - 1

MaximumBlockWeight == 1000
MaximumBlockLength == 1000

Max(a, b) == IF a > b THEN a ELSE b
saturating_mul(a, b) == IF b > 0 /\ a > BalanceMax \div b THEN BalanceMax ELSE a * b
saturating_sub(a, b) == Max(a - b, 0)
saturated_into_balance(x) == Min(x, BalanceMax)
saturated_into_priority(x) == Min(x, U64Max)

(* get_priority whose product wraps at the width of the priority *)
get_priority_wrapping(len, weight, final_fee) ==
    LET weight_saturation == MaximumBlockWeight \div Max(weight, 1)
        len_saturation == MaximumBlockLength \div Max(len, 1)
        coefficient == saturated_into_balance(Min(weight_saturation, len_saturation))
    IN  (final_fee * coefficient) % (U64Max + 1)

(* get_priority that takes the weight itself for its saturation *)
get_priority_by_weight(len, weight, final_fee) ==
    LET weight_saturation == Max(weight, 1)
        len_saturation == MaximumBlockLength \div Max(len, 1)
        coefficient == saturated_into_balance(Min(weight_saturation, len_saturation))
    IN  saturated_into_priority(saturating_mul(final_fee, coefficient))

get_priority(len, weight, final_fee) ==
    LET weight_saturation == MaximumBlockWeight \div Max(weight, 1)
        len_saturation == MaximumBlockLength \div Max(len, 1)
        coefficient == saturated_into_balance(Min(weight_saturation, len_saturation))
    IN  saturated_into_priority(saturating_mul(final_fee, coefficient))

----------------------------------------------------------------------------
(* SignedExtension for ChargeTransactionPayment *)

Validity(ok, priority, bal, swaps) ==
    [ok |-> ok, priority |-> priority, bal |-> bal, swaps |-> swaps]

validate(bal, who, tip, len, weight, frozen, dex) ==
    LET c == withdraw_fee(bal, who, tip, len, weight, frozen, dex)
    IN  IF c.ok
        THEN Validity(TRUE, Some(get_priority(len, weight, c.fee)), c.bal, c.swaps)
        ELSE Validity(FALSE, None, c.bal, c.swaps)

(* Self::Pre *)
Pre(tip, who, imbalance, fee) ==
    [tip |-> tip, who |-> who, imbalance |-> imbalance, fee |-> fee]

PreDispatched(ok, pre, bal, swaps) ==
    [ok |-> ok, pre |-> pre, bal |-> bal, swaps |-> swaps]

(* pre_dispatch that lets the transaction through without the fee *)
pre_dispatch_unpaid(bal, who, tip, len, weight, frozen, dex) ==
    LET c == withdraw_fee(bal, who, tip, len, weight, frozen, dex)
    IN  PreDispatched(TRUE, Some(Pre(tip, who, c.imbalance, c.fee)), c.bal, c.swaps)

pre_dispatch(bal, who, tip, len, weight, frozen, dex) ==
    LET c == withdraw_fee(bal, who, tip, len, weight, frozen, dex)
    IN  IF c.ok
        THEN PreDispatched(TRUE, Some(Pre(tip, who, c.imbalance, c.fee)), c.bal, c.swaps)
        ELSE PreDispatched(FALSE, None, c.bal, c.swaps)

(* what post_dispatch did: its result, the balances, the calls of          *)
(* OnTransactionPayment::on_unbalanceds (each with the imbalances it was   *)
(* handed, in order) and whether the refund was deposited                  *)
Reconciled(ok, bal, hook, refund, deposited) ==
    [ok |-> ok, bal |-> bal, hook |-> hook, refund |-> refund, deposited |-> deposited]

(* post_dispatch that reports a refund it could not deposit *)
post_dispatch_strict(bal, pre, len, actual_weight) ==
    IF IsSome(pre.imbalance)
    THEN LET payed == Unwrap(pre.imbalance)
             actual_fee == compute_actual_fee(len, actual_weight, pre.tip)
             refund == saturating_sub(pre.fee, actual_fee)
             d == LedgerDepositIntoExisting(bal, pre.who, refund)
             o == offset(payed, d.imbalance)
         IN  IF d.ok /\ o.ok
             THEN Reconciled(TRUE, d.bal, <<split(o.imbalance, pre.tip)>>, refund, TRUE)
             ELSE Reconciled(FALSE, d.bal, <<>>, refund, d.ok)
    ELSE Reconciled(TRUE, bal, <<>>, 0, FALSE)

(* post_dispatch that hands the hook the whole payment after a refund *)
post_dispatch_no_offset(bal, pre, len, actual_weight) ==
    IF IsSome(pre.imbalance)
    THEN LET payed == Unwrap(pre.imbalance)
             actual_fee == compute_actual_fee(len, actual_weight, pre.tip)
             refund == saturating_sub(pre.fee, actual_fee)
             d == LedgerDepositIntoExisting(bal, pre.who, refund)
         IN  Reconciled(TRUE, d.bal, <<split(payed, pre.tip)>>, refund, d.ok)
    ELSE Reconciled(TRUE, bal, <<>>, 0, FALSE)

post_dispatch(bal, pre, len, actual_weight) ==
    IF IsSome(pre.imbalance)
    THEN LET payed == Unwrap(pre.imbalance)
             actual_fee == compute_actual_fee(len, actual_weight, pre.tip)
             refund == saturating_sub(pre.fee, actual_fee)
             d == LedgerDepositIntoExisting(bal, pre.who, refund)
             o == offset(payed, d.imbalance)
         IN  IF d.ok
             THEN IF o.ok
                  THEN Reconciled(TRUE, d.bal, <<split(o.imbalance, pre.tip)>>, refund, TRUE)
                  ELSE Reconciled(FALSE, d.bal, <<>>, refund, TRUE)
             ELSE Reconciled(TRUE, d.bal, <<split(payed, pre.tip)>>, refund, FALSE)
    ELSE Reconciled(TRUE, bal, <<>>, 0, FALSE)

----------------------------------------------------------------------------
(* OnReceived for Module: returns the balances and the swap it attempted.  *)

Received(bal, events) == [bal |-> bal, events |-> events]

(* on_received that does not look whether the record is explicit *)
on_received_always_swaps(accts, bal, who, currency_id, amount, dex) ==
    IF currency_id # NativeCurrencyId
    THEN LET max_supply == bal.free[who][currency_id]
             s == swap_with_exact_target(bal, who, trading_path(currency_id),
                                         NewAccountDeposit, max_supply, dex)
         IN  Received(s.bal, <<Ev("swap", Attempt(trading_path(currency_id),
                                                  NewAccountDeposit, max_supply, s.ok))>>)
    ELSE Received(bal, <<>>)

on_received(accts, bal, who, currency_id, amount, dex) ==
    IF ~is_explicit(accts, who) /\ currency_id # NativeCurrencyId
    THEN LET max_supply == bal.free[who][currency_id]
             s == swap_with_exact_target(bal, who, trading_path(currency_id),
                                         NewAccountDeposit, max_supply, dex)
         IN  Received(s.bal, <<Ev("swap", Attempt(trading_path(currency_id),
                                                  NewAccountDeposit, max_supply, s.ok))>>)
    ELSE Received(bal, <<>>)

----------------------------------------------------------------------------
(* The state machine *)

Views == {None} \cup {Some(d) : d \in DataValues}
Closures == [ok : BOOLEAN, view : Views]
(* the ledger refuses the transfers of at most one currency during a call *)
Refusals == {{}} \cup {{c} : c \in Currencies}
RecipientArgs == {None} \cup {Some(i) : i \in Ids}
NoId == "none"

(* Who acts in the model: alice and the Treasury have records written for  *)
(* them; alice, who signs, closes her account; bob only receives.          *)
Openers == {"alice", Treasury}
Closers == {"alice"}

ZeroBalances == [i \in Ids |-> [c \in Currencies |-> 0]]

Call(op, who, arg, pre, result, events) ==
    [op |-> op, who |-> who, arg |-> arg, pre |-> pre, result |-> result, events |-> events]

EnvCall == Call("env", NoId, None, None, "ok", <<>>)

(* The transaction in the fee pipeline: the extrinsic (who, tip, len,      *)
(* weight), what the payer's locks freeze while it is processed, the phase *)
(* it is in, and what the extension's calls returned:                      *)
(* the priority of validate, the swaps the last withdraw_fee attempted,    *)
(* the Pre of pre_dispatch, the post-dispatch weight, and the outcome of   *)
(* post_dispatch.                                                          *)
Tx(phase, who, tip, len, weight, frozen) ==
    [phase |-> phase, who |-> who, tip |-> tip, len |-> len, weight |-> weight,
     frozen |-> frozen, priority |-> None, swaps |-> <<>>, pre |-> None, actual_weight |-> 0,
     post |-> None]

NoTx == Tx("none", NoId, 0, 0, 0, 0)

(* the Option<AccountData> an identity's record holds *)
DataView(accts, k) == split_inner(accts[k], PrefixAndData)[2]

Commit(r, op, k, arg) ==
    /\ accounts' = r.accounts
    /\ free' = r.bal.free
    /\ reserved' = r.bal.reserved
    /\ last' = Call(op, k, arg, DataView(accounts, k), r.result, r.events)
    /\ UNCHANGED tx

Insert(k, data, refuse) ==
    \E r \in {insert(accounts, Bal(free, reserved), k, data, refuse)} :
        Commit(r, "insert", k, Some(data))

Remove(k) ==
    \E r \in {remove(accounts, Bal(free, reserved), k)} :
        Commit(r, "remove", k, None)

Mutate(k, fdata) ==
    \E r \in {mutate(accounts, Bal(free, reserved), k, fdata)} :
        Commit(r, "mutate", k, Some(fdata))

MutateExists(k, fview, refuse) ==
    \E r \in {mutate_exists(accounts, Bal(free, reserved), k, fview, refuse)} :
        Commit(r, "mutate_exists", k, fview)

TryMutateExists(k, f, refuse) ==
    \E r \in {try_mutate_exists(accounts, Bal(free, reserved), k, f, refuse)} :
        Commit(r, "try_mutate_exists", k, f.view)

CloseAccount(who, recipient_arg, refuse) ==
    \E run \in {close_account(accounts, Bal(free, reserved), who, recipient_arg, refuse)} :
        /\ free' = run.bal.free
        /\ reserved' = run.bal.reserved
        /\ last' = Call("close_account", who, None, None, run.err, run.events)
        /\ UNCHANGED <<accounts, tx>>

(* frame_system: the nonce of a signer and the reference count of an      *)
(* identity that exists move outside the module. The Treasury is a module  *)
(* account: it signs nothing, so its nonce stays.                          *)
SystemIncNonce(k) ==
    /\ k # treasury_account_id
    /\ contains_key(accounts, k)
    /\ Unwrap(accounts[k]).nonce < MaxNonce
    /\ accounts' = [accounts EXCEPT ![k] = Some([Unwrap(@) EXCEPT !.nonce = @ + 1])]
    /\ last' = EnvCall
    /\ UNCHANGED <<free, reserved, tx>>

SystemIncRef(k) ==
    /\ contains_key(accounts, k)
    /\ Unwrap(accounts[k]).refcount < MaxRef
    /\ accounts' = [accounts EXCEPT ![k] = Some([Unwrap(@) EXCEPT !.refcount = @ + 1])]
    /\ last' = EnvCall
    /\ UNCHANGED <<free, reserved, tx>>

SystemDecRef(k) ==
    /\ contains_key(accounts, k)
    /\ Unwrap(accounts[k]).refcount > 0
    /\ accounts' = [accounts EXCEPT ![k] = Some([Unwrap(@) EXCEPT !.refcount = @ - 1])]
    /\ last' = EnvCall
    /\ UNCHANGED <<free, reserved, tx>>

RECURSIVE SumOver(_, _)
SumOver(f, S) ==
    IF S = {} THEN 0
    ELSE LET x == CHOOSE y \in S : TRUE IN f[x] + SumOver(f, S \ {x})

Supply(c) == SumOver([i \in Ids |-> free[i][c] + reserved[i][c]], Ids)
SupplyCap(c) == IF c = NativeCurrencyId THEN MaxSupply ELSE MaxOtherSupply

(* the ledger outside the module: an identity receives a unit, or another  *)
(* module reserves a unit of its free balance                              *)
LedgerDeposit(k, c) ==
    /\ Supply(c) < SupplyCap(c)
    /\ free' = [free EXCEPT ![k][c] = @ + 1]
    /\ last' = EnvCall
    /\ UNCHANGED <<accounts, reserved, tx>>

LedgerHold(k, c) ==
    /\ LedgerReserve(Bal(free, reserved), c, k, 1).ok
    /\ free' = LedgerReserve(Bal(free, reserved), c, k, 1).bal.free
    /\ reserved' = LedgerReserve(Bal(free, reserved), c, k, 1).bal.reserved
    /\ last' = EnvCall
    /\ UNCHANGED <<accounts, tx>>

(* The tracker: no record is explicit, and each identity holds some free   *)
(* fee currency (the Treasury none, or the deposit).                       *)
InitialFree ==
    {n \in [Ids -> 0..MaxFree] :
        /\ n[treasury_account_id] \in {0, NewAccountDeposit}
        /\ \A i \in Ids \ Openers : n[i] = 0}

Init ==
    /\ accounts = [i \in Ids |-> None]
    /\ free \in {[i \in Ids |-> [c \in Currencies |->
                     IF c = NativeCurrencyId THEN n[i] ELSE 0]] : n \in InitialFree}
    /\ reserved = ZeroBalances
    /\ last = Call("init", NoId, None, None, "ok", <<>>)
    /\ tx = NoTx

Next ==
    \/ \E k \in Openers, data \in DataValues, refuse \in SUBSET {NativeCurrencyId} :
          Insert(k, data, refuse)
    \/ \E k \in Openers : Remove(k)
    \/ \E k \in Openers, fdata \in DataValues : Mutate(k, fdata)
    \/ \E k \in Openers, fview \in Views, refuse \in SUBSET {NativeCurrencyId} :
          MutateExists(k, fview, refuse)
    \/ \E k \in Openers, f \in Closures, refuse \in SUBSET {NativeCurrencyId} :
          TryMutateExists(k, f, refuse)
    \/ \E k \in Openers : SystemIncNonce(k)
    \/ \E k \in Openers : SystemIncRef(k)
    \/ \E k \in Openers : SystemDecRef(k)

Spec == Init /\ [][Next]_vars

(* The closer: every identity has an explicit default record (as mutate    *)
(* leaves it) and the ledger is empty.                                     *)
InitClose ==
    /\ accounts = [i \in Ids |-> Some(AccountInfoDefault)]
    /\ free = ZeroBalances
    /\ reserved = ZeroBalances
    /\ last = Call("init", NoId, None, None, "ok", <<>>)
    /\ tx = NoTx

NextClose ==
    \/ \E who \in Closers, recipient_arg \in RecipientArgs, refuse \in Refusals :
          CloseAccount(who, recipient_arg, refuse)
    \/ \E k \in Closers : SystemIncRef(k)
    \/ \E k \in Closers : SystemDecRef(k)
    \/ \E k \in Ids, c \in Currencies : LedgerDeposit(k, c)
    \/ \E k \in Closers, c \in Currencies : LedgerHold(k, c)

SpecClose == InitClose /\ [][NextClose]_vars

(* The life of a record: the tracker's writes and the closer, from the     *)
(* tracker's initial states, with nonce and refcount left at zero.         *)
NextLife ==
    \/ \E k \in Openers, data \in DataValues, refuse \in SUBSET {NativeCurrencyId} :
          Insert(k, data, refuse)
    \/ \E k \in Openers : Remove(k)
    \/ \E k \in Openers, fdata \in DataValues : Mutate(k, fdata)
    \/ \E k \in Openers, fview \in Views, refuse \in SUBSET {NativeCurrencyId} :
          MutateExists(k, fview, refuse)
    \/ \E k \in Openers, f \in Closures, refuse \in SUBSET {NativeCurrencyId} :
          TryMutateExists(k, f, refuse)
    \/ \E who \in Closers, recipient_arg \in RecipientArgs, refuse \in Refusals :
          CloseAccount(who, recipient_arg, refuse)

SpecLife == Init /\ [][NextLife]_vars

(* The same operations from states in which the identities that act also   *)
(* hold the other currencies.                                              *)
InitConserve ==
    /\ accounts = [i \in Ids |-> None]
    /\ \E n \in InitialFree, m \in [Currencies \ {NativeCurrencyId} -> 0..MaxOtherSupply] :
          free = [i \in Ids |-> [c \in Currencies |->
                     IF c = NativeCurrencyId THEN n[i]
                     ELSE IF i \in Closers THEN m[c] ELSE 0]]
    /\ reserved = ZeroBalances
    /\ last = Call("init", NoId, None, None, "ok", <<>>)
    /\ tx = NoTx

(* what the data of a record is makes no difference to the funds: every   *)
(* write stores the default data                                           *)
NextConserve ==
    \/ \E k \in Openers, refuse \in SUBSET {NativeCurrencyId} :
          Insert(k, DataDefault, refuse)
    \/ \E k \in Openers : Remove(k)
    \/ \E k \in Openers : Mutate(k, DataDefault)
    \/ \E k \in Openers, fview \in {None, Some(DataDefault)},
          refuse \in SUBSET {NativeCurrencyId} :
          MutateExists(k, fview, refuse)
    \/ \E k \in Openers, ok \in BOOLEAN, refuse \in SUBSET {NativeCurrencyId} :
          TryMutateExists(k, [ok |-> ok, view |-> Some(DataDefault)], refuse)
    \/ \E who \in Closers, recipient_arg \in RecipientArgs, refuse \in Refusals :
          CloseAccount(who, recipient_arg, refuse)

SpecConserve == InitConserve /\ [][NextConserve]_vars

----------------------------------------------------------------------------
(* The fee pipeline: the executive submits one signed transaction at a     *)
(* time to the extension: validate, pre_dispatch, the dispatch of the      *)
(* call, post_dispatch.                                                    *)

Payers == {"alice"}
Tips == 0..MaxTip
Lens == 0..MaxLen
Weights == 0..MaxWeight
Frozens == 0..MaxFrozen
DexQuotes == [Currencies \ {NativeCurrencyId} -> 0..MaxOtherSupply]

Submit(who, tip, len, weight, frozen) ==
    /\ tx.phase \in {"none", "rejected", "reconciled"}
    /\ tx' = Tx("submitted", who, tip, len, weight, frozen)
    /\ UNCHANGED <<accounts, free, reserved, last>>

Validate(dex) ==
    /\ tx.phase = "submitted"
    /\ \E r \in {validate(Bal(free, reserved), tx.who, tx.tip, tx.len, tx.weight,
                           tx.frozen, dex)} :
          /\ free' = r.bal.free
          /\ reserved' = r.bal.reserved
          /\ tx' = [tx EXCEPT !.phase = IF r.ok THEN "validated" ELSE "rejected",
                              !.priority = r.priority,
                              !.swaps = r.swaps]
    /\ UNCHANGED <<accounts, last>>

PreDispatch(dex) ==
    /\ tx.phase = "validated"
    /\ \E r \in {pre_dispatch(Bal(free, reserved), tx.who, tx.tip, tx.len, tx.weight,
                               tx.frozen, dex)} :
          /\ free' = r.bal.free
          /\ reserved' = r.bal.reserved
          /\ tx' = [tx EXCEPT !.phase = IF r.ok THEN "predispatched" ELSE "rejected",
                              !.pre = r.pre,
                              !.swaps = r.swaps]
    /\ UNCHANGED <<accounts, last>>

(* the dispatch of the call: some call that leaves the payer's balances,   *)
(* or the payer's close_account                                            *)
Dispatch(actual_weight) ==
    /\ tx.phase = "predispatched"
    /\ tx' = [tx EXCEPT !.phase = "executed", !.actual_weight = actual_weight]
    /\ UNCHANGED <<accounts, free, reserved, last>>

DispatchCloseAccount(actual_weight) ==
    /\ tx.phase = "predispatched"
    /\ \E run \in {close_account(accounts, Bal(free, reserved), tx.who, None, {})} :
          /\ free' = run.bal.free
          /\ reserved' = run.bal.reserved
          /\ last' = Call("close_account", tx.who, None, None, run.err, run.events)
    /\ tx' = [tx EXCEPT !.phase = "executed", !.actual_weight = actual_weight]
    /\ UNCHANGED accounts

PostDispatch ==
    /\ tx.phase = "executed"
    /\ \E r \in {post_dispatch(Bal(free, reserved), Unwrap(tx.pre), tx.len, tx.actual_weight)} :
          /\ free' = r.bal.free
          /\ reserved' = r.bal.reserved
          /\ tx' = [tx EXCEPT !.phase = "reconciled",
                              !.post = Some([ok |-> r.ok, hook |-> r.hook,
                                             refund |-> r.refund,
                                             deposited |-> r.deposited])]
    /\ UNCHANGED <<accounts, last>>

(* The payer has an explicit record, some free balance of every currency,  *)
(* and nothing or the deposit reserved.                                    *)
InitFee ==
    /\ accounts = [i \in Ids |-> Some(AccountInfoDefault)]
    /\ \E n \in 0..MaxFree, m \in [Currencies \ {NativeCurrencyId} -> 0..MaxOtherSupply] :
          free = [i \in Ids |-> [c \in Currencies |->
                     IF i \notin Payers THEN 0
                     ELSE IF c = NativeCurrencyId THEN n ELSE m[c]]]
    /\ \E held \in {0, NewAccountDeposit} :
          reserved = [i \in Ids |-> [c \in Currencies |->
                         IF i \in Payers /\ c = NativeCurrencyId THEN held ELSE 0]]
    /\ last = Call("init", NoId, None, None, "ok", <<>>)
    /\ tx = NoTx

NextFee ==
    \/ \E who \in Payers, tip \in Tips, len \in Lens, weight \in Weights,
          frozen \in Frozens :
          Submit(who, tip, len, weight, frozen)
    \/ \E dex \in DexQuotes : Validate(dex)
    \/ \E dex \in DexQuotes : PreDispatch(dex)
    \/ \E actual_weight \in Weights : Dispatch(actual_weight)
    \/ \E actual_weight \in Weights : DispatchCloseAccount(actual_weight)
    \/ PostDispatch

SpecFee == InitFee /\ [][NextFee]_vars

----------------------------------------------------------------------------
(* Receiving: the ledger credits an identity and calls on_received for it; *)
(* the tracker writes the record of an identity.                           *)

Receivers == {"alice", "bob"}
Amounts == 0..MaxOtherSupply

OnReceived(who, currency_id, amount, dex) ==
    /\ Supply(NativeCurrencyId) <= MaxSupply
    /\ \E r \in {on_received(accounts, Bal(free, reserved), who, currency_id, amount, dex)} :
          /\ free' = r.bal.free
          /\ reserved' = r.bal.reserved
          /\ last' = Call("on_received", who, Some(currency_id), None, "ok", r.events)
    /\ UNCHANGED <<accounts, tx>>

InitReceive ==
    /\ accounts = [i \in Ids |-> None]
    /\ free = ZeroBalances
    /\ reserved = ZeroBalances
    /\ last = Call("init", NoId, None, None, "ok", <<>>)
    /\ tx = NoTx

NextReceive ==
    \/ \E k \in Receivers, c \in Currencies : LedgerDeposit(k, c)
    \/ \E who \in Receivers, c \in Currencies, amount \in Amounts, dex \in DexQuotes :
          OnReceived(who, c, amount, dex)
    \/ \E k \in Receivers, data \in DataValues : Insert(k, data, {})

SpecReceive == InitReceive /\ [][NextReceive]_vars

----------------------------------------------------------------------------
(* get_priority on its own: a length, a weight and a final fee are given,  *)
(* and the priority is computed for them.                                  *)

(* lengths and weights: the small ones, those around the block maxima, and *)
(* the largest a u64 holds                                                 *)
Sizes ==
    (0..(MaxLen + 2)) \cup {10, 100, MaximumBlockWeight - 1, MaximumBlockWeight,
                            MaximumBlockWeight + 1, U64Max}
Fees == (0..(MaxTip + 1)) \cup {10, U64Max, U64Max + 1, BalanceMax}

Given(len, weight, final_fee) == [len |-> len, weight |-> weight, final_fee |-> final_fee]

GetPriority ==
    /\ last.op = "given"
    /\ \E given \in {Unwrap(last.arg)} :
          last' = Call("get_priority", NoId, last.arg, None,
                       get_priority(given.len, given.weight, given.final_fee), <<>>)
    /\ UNCHANGED <<accounts, free, reserved, tx>>

InitPriority ==
    /\ accounts = [i \in Ids |-> None]
    /\ free = ZeroBalances
    /\ reserved = ZeroBalances
    /\ \E len \in Sizes, weight \in Sizes, final_fee \in Fees :
          last = Call("given", NoId, Some(Given(len, weight, final_fee)), None, 0, <<>>)
    /\ tx = NoTx

NextPriority == GetPriority

SpecPriority == InitPriority /\ [][NextPriority]_vars

----------------------------------------------------------------------------
(* Claims about the tracker (Spec) *)

Count(events, kind) == Cardinality({i \in 1..Len(events) : events[i][1] = kind})

TrackerWrites == {"insert", "mutate", "mutate_exists", "try_mutate_exists"}

Native(m, k) == m[k][NativeCurrencyId]

(* C1: a tracker write on an identity whose record was not explicit fires  *)
(* exactly one lifecycle invocation (open_account once, with at most its   *)
(* one "created", for insert, mutate_exists and try_mutate_exists; the     *)
(* bare "created" and no open_account for mutate), and a call on an        *)
(* identity whose record is already explicit fires neither.                *)
C1_ExactlyOnce ==
    [][(last'.op \in TrackerWrites) =>
        LET k == last'.who
            opened == Count(last'.events, "open_account")
            created == Count(last'.events, "created")
        IN  IF contains_key(accounts, k) \/ last'.result = "err"
            THEN opened = 0 /\ created = 0
            ELSE IF last'.op = "mutate"
            THEN opened = 0 /\ created = 1
            ELSE opened = 1 /\ created <= 1]_vars

(* a record made explicit by try_mutate_exists, with its one open_account *)
C1_Witness ==
    /\ last.op = "try_mutate_exists"
    /\ last.result = "ok"
    /\ last.pre = None
    /\ contains_key(accounts, last.who)
    /\ last.events = <<Ev("open_account", last.who), Ev("created", last.who)>>

(* C2: a try_mutate_exists whose f succeeds and leaves the view as it      *)
(* received it never fires open_account and leaves nonce and refcount as   *)
(* they were, whether the record was explicit or not.                      *)
C2_NoopIdempotent ==
    [][(/\ last'.op = "try_mutate_exists"
        /\ last'.result = "ok"
        /\ last'.arg = DataView(accounts, last'.who)) =>
        /\ Count(last'.events, "open_account") = 0
        /\ AccountGet(accounts', last'.who).nonce = AccountGet(accounts, last'.who).nonce
        /\ AccountGet(accounts', last'.who).refcount = AccountGet(accounts, last'.who).refcount]_vars

(* C3: when f fails, try_mutate_exists returns the error, the storage and  *)
(* the balances are what they were and no hook is invoked.                 *)
C3_FailureWritesNothing ==
    [][last'.op = "try_mutate_exists" =>
        \A f \in Closures, refuse \in SUBSET {NativeCurrencyId} :
            (~f.ok /\ f.view = last'.arg /\ TryMutateExists(last'.who, f, refuse)) =>
                /\ last'.result = "err"
                /\ accounts' = accounts
                /\ free' = free
                /\ reserved' = reserved
                /\ last'.events = <<>>]_vars

(* a failed try_mutate_exists on an explicit record with a prefix to lose *)
C3_Witness ==
    /\ last.op = "try_mutate_exists"
    /\ last.result = "err"
    /\ contains_key(accounts, last.who)
    /\ AccountGet(accounts, last.who).nonce > 0
    /\ AccountGet(accounts, last.who).refcount > 0

(* C4: open_account on an identity whose free fee-currency balance covers  *)
(* the deposit reserves exactly the deposit, leaves the record explicit    *)
(* and fires "created" once.                                               *)
C4_OpenReservesDeposit ==
    [][(/\ Count(last'.events, "open_account") = 1
        /\ Native(free, last'.who) >= NewAccountDeposit) =>
        LET k == last'.who
        IN  /\ free' = [free EXCEPT ![k][NativeCurrencyId] = @ - NewAccountDeposit]
            /\ reserved' = [reserved EXCEPT ![k][NativeCurrencyId] = @ + NewAccountDeposit]
            /\ contains_key(accounts', k)
            /\ Count(last'.events, "created") = 1]_vars

(* insert opened an account that held MaxFree: the deposit is reserved *)
C4_Witness ==
    /\ last.op = "insert"
    /\ last.events = <<Ev("open_account", last.who), Ev("created", last.who)>>
    /\ Native(free, last.who) = MaxFree - NewAccountDeposit
    /\ Native(reserved, last.who) = NewAccountDeposit

(* C5 as stated: open_account on a non-Treasury identity whose free        *)
(* balance is below the deposit always moves the whole free balance to the *)
(* Treasury, erases the record and fires no "created".                     *)
C5_DustAlwaysRecycled ==
    [][(/\ Count(last'.events, "open_account") = 1
        /\ last'.who # treasury_account_id
        /\ Native(free, last'.who) < NewAccountDeposit) =>
        LET k == last'.who
        IN  /\ Native(free', k) = 0
            /\ Native(free', treasury_account_id)
                   = Native(free, treasury_account_id) + Native(free, k)
            /\ ~contains_key(accounts', k)
            /\ Count(last'.events, "created") = 0]_vars

(* C5 amended: the reservation fails and no "created" is fired; when the   *)
(* transfer of the whole free balance to the Treasury succeeds the balance *)
(* is moved and the record erased, and when the ledger refuses it nothing  *)
(* is moved and the record stays explicit.                                 *)
C5_DustRecycledUnlessRefused ==
    [][(/\ Count(last'.events, "open_account") = 1
        /\ last'.who # treasury_account_id
        /\ Native(free, last'.who) < NewAccountDeposit) =>
        LET k == last'.who
        IN  /\ Count(last'.events, "created") = 0
            /\ reserved' = reserved
            /\ IF Count(last'.events, "transfer_failed") = 0
               THEN /\ Native(free', k) = 0
                    /\ Native(free', treasury_account_id)
                          = Native(free, treasury_account_id) + Native(free, k)
                    /\ ~contains_key(accounts', k)
               ELSE /\ free' = free
                    /\ contains_key(accounts', k)]_vars

(* dust was moved to the Treasury and the record erased *)
C5_Witness ==
    /\ last.op \in TrackerWrites
    /\ last.who # treasury_account_id
    /\ last.events = <<Ev("open_account", last.who), Ev("erased", last.who)>>
    /\ ~contains_key(accounts, last.who)
    /\ Native(free, last.who) = 0
    /\ Native(free, treasury_account_id) = 1 + NewAccountDeposit

----------------------------------------------------------------------------
(* Claims about close_account (SpecClose) *)

Closed == last'.op = "close_account"

(* the recipient a close_account resolved, once it got that far *)
RecipientOf(call) == call.events[1][2]

HasEvent(events, e) == \E i \in 1..Len(events) : events[i] = e

(* C6: close_account by an account whose reference count is not zero fails *)
(* with NonZeroRefCount whatever the recipient, and no balance of any      *)
(* account in any currency changes.                                        *)
C6_NonZeroRefCount ==
    [][(Closed /\ AccountGet(accounts, last'.who).refcount # 0) =>
        /\ last'.result = "NonZeroRefCount"
        /\ free' = free
        /\ reserved' = reserved]_vars

(* a refused close of an account that holds something in every currency *)
C6_Witness ==
    /\ last.op = "close_account"
    /\ last.result = "NonZeroRefCount"
    /\ AccountGet(accounts, last.who).refcount # 0
    /\ \A c \in Currencies : free[last.who][c] + reserved[last.who][c] > 0

(* C7: close_account by a deletable account whose reserved fee-currency    *)
(* balance exceeds the deposit fails with StillHasActiveReserved and no    *)
(* balance changes; a reserved balance equal to the deposit, with nothing  *)
(* reserved in the other currencies, does not fail that way.               *)
C7_ReservedAboveDeposit ==
    [][(Closed /\ allow_death(accounts, last'.who)) =>
        LET who == last'.who
        IN  /\ Native(reserved, who) > NewAccountDeposit =>
                 /\ last'.result = "StillHasActiveReserved"
                 /\ free' = free
                 /\ reserved' = reserved
            /\ (/\ Native(reserved, who) = NewAccountDeposit
                /\ \A c \in Currencies \ {NativeCurrencyId} : reserved[who][c] = 0) =>
                 last'.result # "StillHasActiveReserved"]_vars

(* a refused close of a deletable account with more than the deposit held *)
C7_Witness ==
    /\ last.op = "close_account"
    /\ last.result = "StillHasActiveReserved"
    /\ allow_death(accounts, last.who)
    /\ Native(reserved, last.who) > NewAccountDeposit
    /\ last.events = <<>>

(* C8: a close_account that fails, at whatever step, leaves every balance  *)
(* and every account record as it was before the call and does not invoke  *)
(* the kill-account hook.                                                  *)
C8_AtomicRollback ==
    [][(Closed /\ last'.result # "ok") =>
        /\ free' = free
        /\ reserved' = reserved
        /\ accounts' = accounts
        /\ Count(last'.events, "killed") = 0]_vars

(* a close that failed after it had unreserved and moved fee currency and  *)
(* moved the first other currency to somebody else                         *)
C8_Witness ==
    /\ last.op = "close_account"
    /\ last.result \in {"StillHasActiveReserved", "TransferFailed"}
    /\ HasEvent(last.events, Ev("transfer", AUSD))
    /\ RecipientOf(last) # last.who
    /\ Native(reserved, last.who) > 0
    /\ Native(free, last.who) > 0
    /\ free[last.who][AUSD] > 0

(* C9 as stated: after a successful close_account, whatever the recipient, *)
(* the closer has no free and no reserved fee currency and no free balance *)
(* of any other currency, and the recipient holds what it held before plus *)
(* what the closer held.                                                   *)
C9_CloserEmptied ==
    [][(Closed /\ last'.result = "ok") =>
        LET who == last'.who
            recipient == RecipientOf(last')
        IN  /\ Native(free', who) = 0
            /\ Native(reserved', who) = 0
            /\ \A c \in Currencies \ {NativeCurrencyId} : free'[who][c] = 0
            /\ Native(free', recipient) + Native(reserved', recipient)
                  = Native(free, recipient) + Native(reserved, recipient)
                    + Native(free, who) + Native(reserved, who)
            /\ \A c \in Currencies \ {NativeCurrencyId} :
                  free'[recipient][c] = free[recipient][c] + free[who][c]]_vars

(* C10: a successful close_account invokes the kill-account hook once, for *)
(* the caller, as its last step, after the unreserve and the transfer of   *)
(* the fee currency and of every other currency; a failed one never does.  *)
C10_KillLastOnce ==
    [][Closed =>
        LET ev == last'.events
            who == last'.who
        IN  IF last'.result = "ok"
            THEN /\ Count(ev, "killed") = 1
                 /\ ev[Len(ev)] = Ev("killed", who)
                 /\ \E u, t \in 1..(Len(ev) - 1) :
                       /\ u < t
                       /\ ev[u] = Ev("unreserve", NativeCurrencyId)
                       /\ ev[t] = Ev("transfer", NativeCurrencyId)
                 /\ \A i \in 1..Len(AllNonNativeCurrencyIds) :
                       \E t \in 1..(Len(ev) - 1) :
                           ev[t] = Ev("transfer", AllNonNativeCurrencyIds[i])
            ELSE Count(ev, "killed") = 0]_vars

(* a successful close that moved fee currency and another currency to bob *)
C10_Witness ==
    /\ last.op = "close_account"
    /\ last.result = "ok"
    /\ RecipientOf(last) = "bob"
    /\ Native(free, "bob") > 0
    /\ free["bob"][DOT] > 0
    /\ last.events[Len(last.events)] = Ev("killed", last.who)

----------------------------------------------------------------------------
(* Claims about the fee charger (SpecFee) *)

FeeOf(t) == compute_fee(t.len, t.weight, t.tip)
SwapSucceeded(swaps) == \E i \in 1..Len(swaps) : swaps[i].ok
PreDispatchStep == tx.phase = "validated" /\ tx'.phase # "validated"

(* what the keep-alive withdrawal of value decides for an account with     *)
(* these free and reserved balances and this much frozen                   *)
Withdrawable(account_free, account_reserved, value, frozen) ==
    \/ value = 0
    \/ /\ account_free >= value
       /\ account_free - value >= frozen
       /\ ~(/\ account_free - value + account_reserved < ExistentialDeposit
            /\ account_free + account_reserved >= ExistentialDeposit)

(* C11 as stated: a withdraw_fee that succeeds with a fee above zero       *)
(* leaves the payer's free fee-currency balance at or above the            *)
(* existential minimum.                                                    *)
C11_FreeAboveMinimum ==
    [][(PreDispatchStep /\ tx'.phase = "predispatched" /\ FeeOf(tx) > 0) =>
          free'[tx.who][NativeCurrencyId] >= ExistentialDeposit]_vars

(* C11: withdraw_fee succeeds exactly when the keep-alive withdrawal of    *)
(* the fee from the balance left by the swaps succeeds, whatever the swaps *)
(* did. Then it returns (fee, Some(imbalance of fee)), the free balance is *)
(* the one after the swaps less fee, and an account (free plus reserved)   *)
(* that was at the existential minimum is not taken below it. Otherwise it *)
(* returns the payment error and no fee, and the balance stays as the      *)
(* swaps left it.                                                          *)
C11_WithdrawalDecides ==
    [][PreDispatchStep =>
        LET who == tx.who
            fee == FeeOf(tx)
            held == reserved[who][NativeCurrencyId]
            after_swap == free[who][NativeCurrencyId]
                            + (IF SwapSucceeded(tx'.swaps) THEN fee ELSE 0)
        IN  IF Withdrawable(after_swap, held, fee, tx.frozen)
            THEN /\ tx'.phase = "predispatched"
                 /\ tx'.pre = Some(Pre(tx.tip, who, Some(fee), fee))
                 /\ free'[who][NativeCurrencyId] = after_swap - fee
                 /\ after_swap + held >= ExistentialDeposit =>
                        free'[who][NativeCurrencyId] + reserved'[who][NativeCurrencyId]
                            >= ExistentialDeposit
            ELSE /\ tx'.phase = "rejected"
                 /\ tx'.pre = None
                 /\ free'[who][NativeCurrencyId] = after_swap]_vars

(* a swap was needed and filled, the fee was withdrawn, and the payer is   *)
(* left with no free balance above a reserved deposit                      *)
C11_Witness ==
    /\ tx.phase = "predispatched"
    /\ Unwrap(tx.pre).fee > 0
    /\ SwapSucceeded(tx.swaps)
    /\ free[tx.who][NativeCurrencyId] < ExistentialDeposit
    /\ reserved[tx.who][NativeCurrencyId] >= ExistentialDeposit

(* the order of the phases of one transaction, and the phases a            *)
(* transaction ends in                                                     *)
PhaseOrder ==
    {<<"submitted", "validated">>, <<"validated", "predispatched">>,
     <<"predispatched", "executed">>, <<"executed", "reconciled">>,
     <<"submitted", "rejected">>, <<"validated", "rejected">>}
Terminal == {"none", "rejected", "reconciled"}

PostDispatchStep == tx.phase = "executed" /\ tx'.phase = "reconciled"

(* C13: post_dispatch returns Ok for every Pre of a successful             *)
(* pre_dispatch and every post-dispatch weight. When the refund cannot be  *)
(* deposited, or the actual fee is not below the fee charged, the payer's  *)
(* balance stays as it was: the charge stands.                             *)
C13_PostDispatchOk ==
    [][PostDispatchStep =>
        LET pre == Unwrap(tx.pre)
            post == Unwrap(tx'.post)
            actual_fee == compute_actual_fee(tx.len, tx.actual_weight, pre.tip)
        IN  /\ post.ok
            /\ (~post.deposited \/ actual_fee >= pre.fee) =>
                  /\ free' = free
                  /\ reserved' = reserved
                  /\ Len(post.hook) = 1
                  /\ post.hook[1][1] + post.hook[1][2] = pre.fee]_vars

(* the payer closed the account in the call, a refund was due and could    *)
(* not be deposited, and post_dispatch returned Ok                         *)
C13_Witness ==
    /\ tx.phase = "reconciled"
    /\ Unwrap(tx.post).ok
    /\ Unwrap(tx.post).refund > 0
    /\ ~Unwrap(tx.post).deposited

(* C14: post_dispatch hands the hook, once, the pair (fee, tip): the       *)
(* second imbalance is the tip, capped at the net amount collected (the    *)
(* fee charged less the refund deposited), the first is the rest.          *)
C14_FeeThenTip ==
    [][PostDispatchStep =>
        LET pre == Unwrap(tx.pre)
            post == Unwrap(tx'.post)
            net == pre.fee - (IF post.deposited THEN post.refund ELSE 0)
        IN  /\ Len(post.hook) = 1
            /\ post.hook[1][2] = Min(pre.tip, net)
            /\ post.hook[1][1] = net - Min(pre.tip, net)
            /\ post.hook[1][1] + post.hook[1][2] = net]_vars

----------------------------------------------------------------------------
(* Claims about get_priority (SpecPriority) *)

Computed == last.op = "get_priority"

(* C15: the priority is final_fee times the smaller of                     *)
(* MaximumBlockWeight div max(weight, 1) and MaximumBlockLength div        *)
(* max(len, 1), or the largest priority when that product is above it; it  *)
(* is computed for weight 0 and for length 0; fee 10, length 100 and       *)
(* weight 10 under maxima of 1000 give priority 100.                       *)
C15_PriorityFormula ==
    Computed =>
        LET given == Unwrap(last.arg)
            by_weight == MaximumBlockWeight \div (IF given.weight = 0 THEN 1 ELSE given.weight)
            by_len == MaximumBlockLength \div (IF given.len = 0 THEN 1 ELSE given.len)
            coefficient == IF by_weight < by_len THEN by_weight ELSE by_len
            capped == coefficient > 0 /\ given.final_fee > U64Max \div coefficient
        IN  /\ last.result = (IF capped THEN U64Max ELSE given.final_fee * coefficient)
            /\ last.result \in 0..U64Max
            /\ (given.final_fee = 10 /\ given.len = 100 /\ given.weight = 10) =>
                  coefficient = 10 /\ last.result = 100

(* a transaction of weight 0 and length 0 whose product is above the       *)
(* largest priority                                                        *)
C15_Witness ==
    /\ Computed
    /\ Unwrap(last.arg).weight = 0
    /\ Unwrap(last.arg).len = 0
    /\ Unwrap(last.arg).final_fee > U64Max \div MaximumBlockWeight
    /\ last.result = U64Max

(* C16: with the fee and the length fixed, no larger weight has a larger   *)
(* priority, and with the fee and the weight fixed, no larger length has,  *)
(* up to the largest weight and length.                                    *)
C16_PriorityMonotone ==
    Computed =>
        LET given == Unwrap(last.arg)
        IN  /\ \A weight \in given.weight..U64Max :
                  get_priority(given.len, weight, given.final_fee) <= last.result
            /\ \A len \in given.len..U64Max :
                  get_priority(len, given.weight, given.final_fee) <= last.result

(* one more unit of weight lowers a priority that is not capped *)
C16_Witness ==
    /\ Computed
    /\ last.result > 0
    /\ last.result < U64Max
    /\ get_priority(Unwrap(last.arg).len, Unwrap(last.arg).weight + 1,
                    Unwrap(last.arg).final_fee) < last.result

----------------------------------------------------------------------------
(* Claims about the life of a record (SpecLife, Spec) *)

Wrote == last'.op \in TrackerWrites /\ last'.result = "ok"

ViewMutated == last'.op \in {"mutate_exists", "try_mutate_exists"} /\ last'.result = "ok"

(* C18: after a successful mutate_exists or try_mutate_exists on an        *)
(* identity whose record was explicit, the record is explicit with the     *)
(* nonce and the refcount it had, and its data is what f left in the view, *)
(* or the default when f emptied the view.                                 *)
C18_PrefixSurvives ==
    [][(ViewMutated /\ contains_key(accounts, last'.who)) =>
        LET k == last'.who
        IN  /\ contains_key(accounts', k)
            /\ Unwrap(accounts'[k]).nonce = Unwrap(accounts[k]).nonce
            /\ Unwrap(accounts'[k]).refcount = Unwrap(accounts[k]).refcount
            /\ Unwrap(accounts'[k]).data =
                  (IF IsSome(last'.arg) THEN Unwrap(last'.arg) ELSE DataDefault)
            /\ last'.events = <<>>]_vars

(* f emptied the view of a record that had data, a nonce and a reference   *)
C18_Witness ==
    /\ last.op \in {"mutate_exists", "try_mutate_exists"}
    /\ last.result = "ok"
    /\ last.arg = None
    /\ last.pre = Some("d1")
    /\ contains_key(accounts, last.who)
    /\ Unwrap(accounts[last.who]).nonce > 0
    /\ Unwrap(accounts[last.who]).refcount > 0
    /\ Unwrap(accounts[last.who]).data = DataDefault

Opened == last'.op \in TrackerWrites /\ Count(last'.events, "open_account") = 1

(* C19: a tracker write that calls open_account returns normally, and the  *)
(* Treasury's record is explicit after it. When the deposit cannot be      *)
(* reserved and the identity is the Treasury, or the ledger refuses the    *)
(* dust transfer, the record written stays explicit, nothing is reserved,  *)
(* no balance moves and "created" is not fired.                            *)
C19_LeftOpenWithoutDeposit ==
    [][Opened =>
        LET k == last'.who
        IN  /\ last'.result = "ok"
            /\ k = treasury_account_id => contains_key(accounts', k)
            /\ (/\ Native(free, k) < NewAccountDeposit
                /\ \/ k = treasury_account_id
                   \/ Count(last'.events, "transfer_failed") = 1) =>
                  /\ contains_key(accounts', k)
                  /\ reserved' = reserved
                  /\ free' = free
                  /\ Count(last'.events, "created") = 0
                  /\ Count(last'.events, "erased") = 0]_vars

(* the Treasury's record was written while it could not reserve the        *)
(* deposit                                                                 *)
C19_Witness ==
    /\ last.op \in TrackerWrites
    /\ last.who = treasury_account_id
    /\ last.events = <<Ev("open_account", treasury_account_id)>>
    /\ contains_key(accounts, treasury_account_id)
    /\ Native(free, treasury_account_id) < NewAccountDeposit
    /\ Native(reserved, treasury_account_id) = 0

----------------------------------------------------------------------------
(* Claims about the swap fallback (SpecFee) *)

(* C20: when the payer's free fee currency covers the fee and what is left *)
(* passes ensure_can_withdraw, withdraw_fee attempts no swap. Otherwise it *)
(* tries the currencies of AllNonNativeCurrencyIds from the first, in      *)
(* order, the stable currency by the path [stable, native] and any other c *)
(* by [c, stable, native], for the whole fee as target and the payer's     *)
(* free balance of c as the most to supply, and stops after the first swap *)
(* that succeeds: every attempt but the last failed, and a further         *)
(* currency is left untried only when the last attempt succeeded.          *)
C20_SwapFallback ==
    [][(tx.phase \in {"submitted", "validated"} /\ tx'.phase # tx.phase) =>
        LET who == tx.who
            fee == FeeOf(tx)
            swaps == tx'.swaps
            enough == /\ free[who][NativeCurrencyId] >= fee
                      /\ free[who][NativeCurrencyId] - fee >= tx.frozen
        IN  IF enough
            THEN swaps = <<>>
            ELSE /\ Len(swaps) \in 1..Len(AllNonNativeCurrencyIds)
                 /\ \A i \in 1..Len(swaps) :
                       LET c == AllNonNativeCurrencyIds[i]
                       IN  /\ swaps[i].path =
                                 (IF c = StableCurrencyId
                                  THEN <<c, NativeCurrencyId>>
                                  ELSE <<c, StableCurrencyId, NativeCurrencyId>>)
                           /\ swaps[i].target = fee
                           /\ swaps[i].max_supply = free[who][c]
                           /\ i < Len(swaps) => ~swaps[i].ok
                 /\ Len(swaps) < Len(AllNonNativeCurrencyIds) =>
                       swaps[Len(swaps)].ok
                 /\ Cardinality({i \in 1..Len(swaps) : swaps[i].ok}) <= 1
                 /\ \A c \in Currencies \ {NativeCurrencyId} :
                       free'[who][c] # free[who][c] =>
                           \E i \in 1..Len(swaps) :
                               swaps[i].ok /\ swaps[i].path[1] = c]_vars

(* the first currency filled the swap and the second, which the payer      *)
(* holds too, was not tried                                                *)
C20_Witness ==
    /\ tx.phase \in {"validated", "predispatched"}
    /\ Len(tx.swaps) = 1
    /\ tx.swaps[1].ok
    /\ tx.swaps[1].target > 0
    /\ free[tx.who][AllNonNativeCurrencyIds[2]] > 0

----------------------------------------------------------------------------
(* Claims about the refund (SpecFee) *)

(* C21: post_dispatch computes the refund as the fee charged less the      *)
(* actual fee, or zero when the actual fee is larger. When the refund is   *)
(* deposited the payer gets the refund back, so that it has paid the fee   *)
(* charged less the refund, and that amount reaches the hook; when the     *)
(* deposit fails the payer gets nothing back and the fee charged reaches   *)
(* the hook. The payer never gets back more than it was charged.           *)
C21_RefundReconciled ==
    [][/\ (PreDispatchStep /\ tx'.phase = "predispatched") =>
            /\ Unwrap(tx'.pre).fee = FeeOf(tx)
            /\ free'[tx.who][NativeCurrencyId] =
                  free[tx.who][NativeCurrencyId] - FeeOf(tx)
                      + (IF SwapSucceeded(tx'.swaps) THEN FeeOf(tx) ELSE 0)
       /\ PostDispatchStep =>
        LET pre == Unwrap(tx.pre)
            post == Unwrap(tx'.post)
            who == pre.who
            actual_fee == compute_actual_fee(tx.len, tx.actual_weight, pre.tip)
            back == free'[who][NativeCurrencyId] - free[who][NativeCurrencyId]
            to_hook == post.hook[1][1] + post.hook[1][2]
        IN  /\ post.refund = (IF pre.fee > actual_fee THEN pre.fee - actual_fee ELSE 0)
            /\ Len(post.hook) = 1
            /\ post.deposited => back = post.refund /\ to_hook = pre.fee - post.refund
            /\ ~post.deposited => back = 0 /\ to_hook = pre.fee
            /\ back \in 0..pre.fee
            /\ \A i \in Ids, c \in Currencies :
                  (i # who \/ c # NativeCurrencyId) => free'[i][c] = free[i][c]
            /\ reserved' = reserved]_vars

(* a refund was deposited and the hook received the rest *)
C21_Witness ==
    /\ tx.phase = "reconciled"
    /\ Unwrap(tx.post).deposited
    /\ Unwrap(tx.post).refund > 0
    /\ Unwrap(tx.post).refund < Unwrap(tx.pre).fee
    /\ Unwrap(tx.post).hook[1][1] + Unwrap(tx.post).hook[1][2]
          = Unwrap(tx.pre).fee - Unwrap(tx.post).refund

----------------------------------------------------------------------------
(* Claims about on_received (SpecReceive) *)

ReceivedStep == last'.op = "on_received"

(* C22: on_received for an identity whose record is not explicit and a     *)
(* currency other than the native one calls the DEX once, with the path    *)
(* [stable, native] for the stable currency and [currency, stable, native] *)
(* for any other, the deposit as target and the identity's free balance of *)
(* the currency as the most to supply; when the swap fails no balance      *)
(* changes. For an explicit record or the native currency it calls nothing *)
(* and changes nothing. It returns in every case and never writes a        *)
(* record.                                                                 *)
C22_OnReceived ==
    [][ReceivedStep =>
        LET who == last'.who
            c == Unwrap(last'.arg)
            ev == last'.events
        IN  /\ last'.result = "ok"
            /\ accounts' = accounts
            /\ reserved' = reserved
            /\ IF ~contains_key(accounts, who) /\ c # NativeCurrencyId
               THEN /\ Len(ev) = 1
                    /\ ev[1][1] = "swap"
                    /\ ev[1][2].path =
                          (IF c = StableCurrencyId
                           THEN <<StableCurrencyId, NativeCurrencyId>>
                           ELSE <<c, StableCurrencyId, NativeCurrencyId>>)
                    /\ ev[1][2].target = NewAccountDeposit
                    /\ ev[1][2].max_supply = free[who][c]
                    /\ ~ev[1][2].ok => free' = free
               ELSE /\ ev = <<>>
                    /\ free' = free]_vars

(* a receive of a currency the DEX could not swap: the balance stays with  *)
(* the identity, whose record is not explicit                              *)
C22_Witness ==
    /\ last.op = "on_received"
    /\ last.arg = Some(DOT)
    /\ ~contains_key(accounts, last.who)
    /\ Len(last.events) = 1
    /\ ~last.events[1][2].ok
    /\ free[last.who][DOT] > 0

----------------------------------------------------------------------------
(* Claims about the funds (SpecConserve) *)

(* all there is of a currency: free plus reserved, over every identity *)
Total(f, r, c) == SumOver([i \in Ids |-> f[i][c] + r[i][c]], Ids)

(* the identities an operation may move funds between *)
Parties(call) ==
    {call.who, treasury_account_id}
        \cup (IF call.op = "close_account" /\ call.events # <<>>
              THEN {RecipientOf(call)} ELSE {})

(* C23: across every operation of the tracker (with its open_account) and  *)
(* every close_account, failed or not, the sum of free plus reserved over  *)
(* all identities stays what it was for each currency, and only the        *)
(* balances of the identity that acts, the recipient and the Treasury may  *)
(* change.                                                                 *)
C23_Conservation ==
    [][(free' # free \/ reserved' # reserved) =>
          /\ \A c \in Currencies : Total(free', reserved', c) = Total(free, reserved, c)
          /\ \A i \in Ids \ Parties(last') :
                free'[i] = free[i] /\ reserved'[i] = reserved[i]]_vars

(* an account opened with the deposit was closed in favour of bob, who     *)
(* holds what it had of two currencies                                     *)
C23_Witness ==
    /\ last.op = "close_account"
    /\ last.result = "ok"
    /\ RecipientOf(last) = "bob"
    /\ contains_key(accounts, last.who)
    /\ Native(free, "bob") >= NewAccountDeposit
    /\ free["bob"][DOT] > 0
    /\ Native(free, treasury_account_id) > 0

====
